---- MODULE Spec2Model ----
(***************************************************************************)
(* gitkit: smart-HTTP git server.  Model of the request dispatcher         *)
(* (Server.ServeHTTP), the authentication gate, the repository lifecycle   *)
(* handlers (createRepo, listRepo, deleteRepo, initRepo, repoExists) and   *)
(* the two protocol handlers (getInfoRefs, postRPC) of src/http.go, with   *)
(* the credential extractor of src/credential.go.                          *)
(*                                                                         *)
(* Strings are TLA+ strings; the Go string functions the code calls are    *)
(* operators computed the way the library computes them.  The filesystem   *)
(* is a set of directory paths and a set of file paths.  A request is a    *)
(* context with a position (pc): ServeHTTP up to the first access to the   *)
(* disk is one step, every later access to the disk or to the subprocess   *)
(* is a step of its own.                                                   *)
(***************************************************************************)
EXTENDS Integers, Sequences, FiniteSets, TLC

(***************************************************************************)
(* Go string and path library functions used by the code.                  *)
(***************************************************************************)

\* strings.HasSuffix(s, suffix)
HasSuffix(s, suffix) ==
    /\ Len(s) >= Len(suffix)
    /\ SubSeq(s, Len(s) - Len(suffix) + 1, Len(s)) = suffix

\* strings.HasPrefix(s, prefix)
HasPrefix(s, prefix) ==
    /\ Len(s) >= Len(prefix)
    /\ SubSeq(s, 1, Len(prefix)) = prefix

\* strings.Index(s, sub), 1-based; 0 when sub does not occur in s
Index(s, sub) ==
    LET hits == {i \in 1..(Len(s) - Len(sub) + 1) : SubSeq(s, i, i + Len(sub) - 1) = sub}
    IN  IF hits = {} THEN 0 ELSE CHOOSE i \in hits : \A j \in hits : i <= j

\* strings.LastIndex(s, sub), 1-based; 0 when sub does not occur in s
LastIndex(s, sub) ==
    LET hits == {i \in 1..(Len(s) - Len(sub) + 1) : SubSeq(s, i, i + Len(sub) - 1) = sub}
    IN  IF hits = {} THEN 0 ELSE CHOOSE i \in hits : \A j \in hits : i >= j

\* strings.Replace(s, old, "", 1): the FIRST occurrence of old is removed
ReplaceFirst(s, old) ==
    LET i == Index(s, old)
    IN  IF i = 0 THEN s
        ELSE SubSeq(s, 1, i - 1) \o SubSeq(s, i + Len(old), Len(s))

\* strings.Split(s, "/") as a sequence of segments
RECURSIVE SplitSlash(_)
SplitSlash(s) ==
    LET i == Index(s, "/")
    IN  IF i = 0 THEN <<s>>
        ELSE <<SubSeq(s, 1, i - 1)>> \o SplitSlash(SubSeq(s, i + 1, Len(s)))

\* strings.Join(segs, "/")
RECURSIVE JoinSlash(_)
JoinSlash(segs) ==
    IF Len(segs) = 0 THEN ""
    ELSE IF Len(segs) = 1 THEN segs[1]
    ELSE segs[1] \o "/" \o JoinSlash(Tail(segs))

\* the element stack path.Clean builds: empty and "." elements dropped,
\* ".." removes the element before it (and is dropped at the root)
RECURSIVE CleanStack(_, _, _)
CleanStack(segs, stack, rooted) ==
    IF Len(segs) = 0 THEN stack
    ELSE LET h == Head(segs)
             t == Tail(segs)
         IN  IF h = "" \/ h = "." THEN CleanStack(t, stack, rooted)
             ELSE IF h = ".."
                  THEN IF Len(stack) > 0 /\ stack[Len(stack)] # ".."
                       THEN CleanStack(t, SubSeq(stack, 1, Len(stack) - 1), rooted)
                       ELSE IF rooted THEN CleanStack(t, stack, rooted)
                       ELSE CleanStack(t, Append(stack, ".."), rooted)
             ELSE CleanStack(t, Append(stack, h), rooted)

\* path.Clean(p)
Clean(p) ==
    IF p = "" THEN "."
    ELSE LET rooted == HasPrefix(p, "/")
             body   == JoinSlash(CleanStack(SplitSlash(p), <<>>, rooted))
         IN  IF rooted THEN "/" \o body
             ELSE IF body = "" THEN "." ELSE body

\* the non-empty elements of a sequence of strings
RECURSIVE NonEmpty(_)
NonEmpty(elems) ==
    IF Len(elems) = 0 THEN <<>>
    ELSE IF Head(elems) = "" THEN NonEmpty(Tail(elems))
    ELSE <<Head(elems)>> \o NonEmpty(Tail(elems))

\* path.Join(elems...): empty elements ignored, the rest joined and cleaned;
\* the empty string when every element is empty
PathJoin(elems) ==
    LET ne == NonEmpty(elems)
    IN  IF Len(ne) = 0 THEN "" ELSE Clean(JoinSlash(ne))

\* path.Dir of a clean absolute path
ParentDir(p) ==
    LET i == LastIndex(p, "/")
    IN  IF i <= 1 THEN "/" ELSE SubSeq(p, 1, i - 1)

\* path.Base of a clean absolute path
BaseName(p) ==
    LET i == LastIndex(p, "/")
    IN  SubSeq(p, i + 1, Len(p))

\* strings.Split(s, sep) for a one-character separator
RECURSIVE SplitOn(_, _)
SplitOn(s, sep) ==
    LET i == Index(s, sep)
    IN  IF i = 0 THEN <<s>>
        ELSE <<SubSeq(s, 1, i - 1)>> \o SplitOn(SubSeq(s, i + 1, Len(s)), sep)

\* url.Values.Get(key) over a raw query "k1=v1&k2=v2": the first value of key,
\* the empty string when key is absent
RECURSIVE FirstValue(_, _)
FirstValue(pairs, key) ==
    IF Len(pairs) = 0 THEN ""
    ELSE LET kv == Head(pairs)
             i  == Index(kv, "=")
             k  == IF i = 0 THEN kv ELSE SubSeq(kv, 1, i - 1)
             v  == IF i = 0 THEN "" ELSE SubSeq(kv, i + 1, Len(kv))
         IN  IF k = key THEN v ELSE FirstValue(Tail(pairs), key)

QueryGet(query, key) ==
    IF query = "" THEN "" ELSE FirstValue(SplitOn(query, "&"), key)

(***************************************************************************)
(* Bounds and the inputs explored.                                         *)
(***************************************************************************)

\* chunks the git subprocess writes to its standard output
MaxChunks == 2

\* chunks an operating-system pipe holds before a write to it blocks
PipeCap == 1

\* request contexts (net/http runs one goroutine per request)
Reqs == {1}

Methods == {"GET", "POST", "DELETE"}

Paths ==
    { "/a/x.git/info/refs",
      "/a/x.git/git-upload-pack",
      "/a/x.git/git-receive-pack",
      "/repos",
      "/a/x.git/repo",
      "/repository/x.git/repo",
      "/repo",
      "/info/refs" }

Queries ==
    { "",
      "service=git-upload-pack",
      "service=bogus&x=/repo",
      "service=git-receive-pack&x=/repos" }

\* Authorization header values: absent, a well-formed Basic pair ("u:p"),
\* anything else (taken as a bearer token).  The header is read only inside
\* `if s.config.Auth`, so requests to a server without Auth carry none.
AuthHeaders == {"", "Basic dTpw", "tok"}

\* Config.Dir, the root directory of the repositories
Dir == "/srv"

\* process working directories explored
WorkDirs == {"/srv", "/"}

\* the disk before the server starts: a bare root, or a root holding a
\* repository a/x.git, a directory a/y with an objects entry, a regular file
\* a/f.git and a regular file README, next to a directory /a outside the root
\* that holds the directories z.git and f.git
EmptyDisk ==
    [dirs |-> {"/", "/srv"}, files |-> {}]

PopulatedDisk ==
    [dirs  |-> {"/", "/srv", "/srv/a",
                "/srv/a/x.git", "/srv/a/x.git/objects", "/srv/a/x.git/refs",
                "/srv/a/y", "/srv/a/y/objects",
                "/a", "/a/z.git", "/a/f.git"},
     files |-> {"/srv/a/x.git/HEAD", "/srv/a/f.git", "/srv/README"}]

Disks == {EmptyDisk, PopulatedDisk}

(***************************************************************************)
(* State.                                                                  *)
(***************************************************************************)
VARIABLES
    cfg,      \* Server.config and the injected capabilities, fixed at New
    cwd,      \* the process working directory
    dirs,     \* directories on disk (clean absolute paths)
    files,    \* regular files on disk
    req       \* per request context: inputs, derived fields, position, response

vars == <<cfg, cwd, dirs, files, req>>

\* a service table in which the listing suffix is also a suffix of "/info/refs"
servicesOverlapping ==
    << [method |-> "GET",    suffix |-> "/info/refs",        handler |-> "getInfoRefs", rpc |-> ""],
       [method |-> "POST",   suffix |-> "/git-upload-pack",  handler |-> "postRPC",     rpc |-> "git-upload-pack"],
       [method |-> "POST",   suffix |-> "/git-receive-pack", handler |-> "postRPC",     rpc |-> "git-receive-pack"],
       [method |-> "GET",    suffix |-> "/refs",             handler |-> "listRepo",    rpc |-> ""],
       [method |-> "POST",   suffix |-> "/repo",             handler |-> "createRepo",  rpc |-> ""],
       [method |-> "DELETE", suffix |-> "/repo",             handler |-> "deleteRepo",  rpc |-> ""] >>

\* the service table registered by New, in registration order
services ==
    << [method |-> "GET",    suffix |-> "/info/refs",        handler |-> "getInfoRefs", rpc |-> ""],
       [method |-> "POST",   suffix |-> "/git-upload-pack",  handler |-> "postRPC",     rpc |-> "git-upload-pack"],
       [method |-> "POST",   suffix |-> "/git-receive-pack", handler |-> "postRPC",     rpc |-> "git-receive-pack"],
       [method |-> "GET",    suffix |-> "/repos",            handler |-> "listRepo",    rpc |-> ""],
       [method |-> "POST",   suffix |-> "/repo",             handler |-> "createRepo",  rpc |-> ""],
       [method |-> "DELETE", suffix |-> "/repo",             handler |-> "deleteRepo",  rpc |-> ""] >>

\* the condition of findService's loop body for service i
Matches(i, method, path) ==
    services[i].method = method /\ HasSuffix(path, services[i].suffix)

\* findService: the first matching service (0 for nil) and the request path
\* with the first occurrence of its suffix replaced by ""
findService(method, path) ==
    LET hits == {i \in 1..Len(services) : Matches(i, method, path)}
    IN  IF hits = {} THEN [svc |-> 0, path |-> ""]
        ELSE LET i == CHOOSE k \in hits : \A j \in hits : k <= j
             IN  [svc |-> i, path |-> ReplaceFirst(path, services[i].suffix)]

\* getNamespaceAndRepo: the remainder parsed into a namespace prefix and a
\* leaf name (leading slash dropped, split at the last slash)
getNamespaceAndRepo(input) ==
    IF input = "" \/ input = "/" THEN [namespace |-> "", name |-> ""]
    ELSE LET in == IF HasPrefix(input, "/") THEN SubSeq(input, 2, Len(input)) ELSE input
             i  == LastIndex(in, "/")
         IN  IF i = 0 THEN [namespace |-> "", name |-> in]
             ELSE [namespace |-> SubSeq(in, 1, i - 1), name |-> SubSeq(in, i + 1, Len(in))]

\* http.Request.RequestURI: the path and, when present, "?" and the raw query
RequestURI(path, query) ==
    IF query = "" THEN path ELSE path \o "?" \o query

\* ServeHTTP line 90: the request counts as a listing, the name check is skipped
SkipNameCheck(method, uri) ==
    method = "GET" /\ HasSuffix(uri, "/repos")

\* ServeHTTP lines 137-138: the handler is called without the existence check
BypassExistence(method, uri) ==
    \/ method = "POST" /\ HasSuffix(uri, "/repo")
    \/ method = "GET" /\ HasSuffix(uri, "/repos")

\* http.Request.BasicAuth: "Basic " followed by the base64 of "user:pass"
BasicAuth(header) ==
    IF header = "Basic dTpw"
    THEN [ok |-> TRUE, user |-> "u", pass |-> "p"]
    ELSE [ok |-> FALSE, user |-> "", pass |-> ""]

\* tokenAuth: the Authorization header itself, when not empty
tokenAuth(header) ==
    IF header # "" THEN [token |-> header, ok |-> TRUE] ELSE [token |-> "", ok |-> FALSE]

\* getCredential: the Basic pair, else the token, else an error
getCredential(header) ==
    LET b == BasicAuth(header)
        t == tokenAuth(header)
    IN  IF ~b.ok
        THEN IF t.ok
             THEN [Username |-> "", Password |-> "", Token |-> t.token, err |-> FALSE]
             ELSE [Username |-> "", Password |-> "", Token |-> "", err |-> TRUE]
        ELSE [Username |-> b.user, Password |-> b.pass, Token |-> "", err |-> FALSE]

\* line 126 with the error of AuthFunc not looked at
AuthRejectedErrIgnored(allow, err) ==
    ~allow

\* ServeHTTP line 126: the AuthFunc result that is rejected
AuthRejected(allow, err) ==
    ~allow \/ err

(***************************************************************************)
(* The filesystem.                                                         *)
(***************************************************************************)

\* os.Stat / os.Lstat succeed on p (there are no symbolic links on the disk)
Stat(d, f, p) ==
    p \in d \cup f

\* repoExists: an objects entry is present under p
repoExists(d, f, p) ==
    Stat(d, f, PathJoin(<<p, "objects">>))

\* the directories above a clean absolute path
RECURSIVE Ancestors(_)
Ancestors(p) ==
    IF p = "/" THEN {} ELSE {ParentDir(p)} \cup Ancestors(ParentDir(p))

\* p is q or lies below q
Under(p, q) ==
    p = q \/ HasPrefix(p, IF q = "/" THEN q ELSE q \o "/")

\* a name given to os.ReadDir, resolved against the working directory
Resolve(wd, name) ==
    IF HasPrefix(name, "/") THEN Clean(name) ELSE Clean(wd \o "/" \o name)

\* os.ReadDir(name): an error when the resolved path is no directory, else
\* the entries of the directory as (Name, IsDir) pairs
ReadDir(d, f, wd, name) ==
    LET p == Resolve(wd, name)
    IN  IF p \notin d THEN [err |-> TRUE, entries |-> {}]
        ELSE [err |-> FALSE,
              entries |-> {[Name |-> BaseName(q), IsDir |-> q \in d] :
                              q \in {e \in (d \cup f) \ {"/"} : ParentDir(e) = p}}]

\* the disk after a successful `git init --bare fullPath`
GitInit(d, f, fullPath) ==
    [dirs  |-> d \cup Ancestors(fullPath)
                 \cup {fullPath, PathJoin(<<fullPath, "objects">>), PathJoin(<<fullPath, "refs">>)},
     files |-> f \cup {PathJoin(<<fullPath, "HEAD">>)}]

\* initRepo(name, config): the outcomes of running `git init --bare` on
\* Dir/name and then, with AutoHooks, of installing the hooks.  The command
\* can fail to run; it fails when a regular file is in the way; the hook
\* installation can fail after the repository was created.
initRepo(d, f, name, hooks) ==
    LET fullPath == PathJoin(<<Dir, name>>)
        blocked  == \E q \in Ancestors(fullPath) \cup {fullPath} : q \in f
        made     == GitInit(d, f, fullPath)
    IN  {[err |-> TRUE, dirs |-> d, files |-> f]}
        \cup (IF blocked THEN {}
              ELSE {[err |-> FALSE, dirs |-> made.dirs, files |-> made.files]}
                   \cup (IF hooks
                         THEN {[err |-> TRUE, dirs |-> made.dirs, files |-> made.files]}
                         ELSE {}))

\* os.RemoveAll(p): p and everything below it is gone
RemoveAll(d, f, p) ==
    [dirs  |-> {q \in d : ~Under(q, p)},
     files |-> {q \in f : ~Under(q, p)}]

(***************************************************************************)
(* Per-request context.                                                    *)
(***************************************************************************)

\* the context of a request slot before a request arrives
IdleReq ==
    [pc           |-> "idle",   \* position of the request's goroutine
     method       |-> "",       \* r.Method
     path         |-> "",       \* r.URL.Path
     query        |-> "",       \* r.URL.RawQuery
     authHeader   |-> "",       \* r.Header["Authorization"]
     svc          |-> 0,        \* index of the matched service, 0 for nil
     repoUrlPath  |-> "",       \* second result of findService
     RepoName     |-> "",       \* Request.RepoName
     RepoPath     |-> "",       \* Request.RepoPath
     status       |-> 0,        \* status line sent, 0 while none
     statusWrites |-> 0,        \* calls that wrote a status
     wwwAuth      |-> FALSE,    \* WWW-Authenticate header set
     body         |-> <<>>,     \* response body written so far
     panicked     |-> FALSE,    \* the goroutine panicked (nil function call)
     authCalled   |-> FALSE,    \* AuthFunc was called
     authAllow    |-> FALSE,    \* its first result
     authErr      |-> FALSE,    \* its second result was not nil
     checked      |-> FALSE,    \* the dispatcher's last repoExists returned true
     handler      |-> "none",   \* handler invoked
     handlerCalls |-> 0,        \* handler invocations
     sawMissing   |-> FALSE,    \* createRepo's repoExists returned false
     initRuns     |-> 0,        \* initRepo invocations
     autoErr      |-> FALSE,    \* the dispatcher's initRepo returned an error
     created      |-> FALSE,    \* an initRepo of this request created a repository
     removed      |-> FALSE,    \* RemoveAll of this request ran
     spawned      |-> 0,        \* protocol subprocesses started (cmd.Start ok)
     group        |-> "none",   \* process group: none, live, gone
     stdinClosed  |-> FALSE,    \* postRPC closed the subprocess's standard input
     out          |-> 0,        \* subprocess output chunks copied
     waited       |-> FALSE,    \* cmd.Wait was called
     bodyLeft     |-> 0,        \* request body chunks not yet written to stdin
     inPipe       |-> 0,        \* chunks in the standard input pipe
     outPipe      |-> 0,        \* chunks in the standard output pipe
     sub          |-> "choose", \* the subprocess: choose, read, write, exited
     subEof       |-> FALSE,    \* the subprocess read the end of its input
     subOut       |-> 0,        \* chunks the subprocess wrote
     listed       |-> {},       \* list handed to FilterRepoFunc
     filterCalled |-> FALSE,    \* FilterRepoFunc was called
     disk0        |-> [dirs |-> {}, files |-> {}]]  \* the disk when the request arrived

\* http.Error / WriteHeader / fail500 / formatResponse: the status line is
\* sent by the first call that writes one
Respond(c, code) ==
    [c EXCEPT !.status = IF @ = 0 THEN code ELSE @,
              !.statusWrites = @ + 1]

\* the request's goroutine leaves ServeHTTP
Finish(c) ==
    [c EXCEPT !.pc = "done"]

\* cleanUpProcessGroup(cmd): the whole process group is terminated
cleanUpProcessGroup(c) ==
    [c EXCEPT !.group = IF @ = "none" THEN @ ELSE "gone"]

\* a return that runs no deferred cleanup
ReturnNoCleanup(c) ==
    Finish(c)

\* return from getInfoRefs / postRPC after `defer cleanUpProcessGroup(cmd)`
\* was registered: the deferred call runs, then the handler returns
ReturnDeferred(c) ==
    Finish(cleanUpProcessGroup(c))

\* svc.handler(svc.rpc, w, req)
InvokeHandler(c) ==
    [c EXCEPT !.pc = services[c.svc].handler,
              !.handler = services[c.svc].handler,
              !.handlerCalls = @ + 1]

\* packLine(w, s): the pkt-line of s, four lowercase hex digits of len(s)+4
\* and then s
HexDigit(n) ==
    SubSeq("0123456789abcdef", n + 1, n + 1)

PktLine(s) ==
    LET n == Len(s) + 4
    IN  HexDigit((n \div 4096) % 16) \o HexDigit((n \div 256) % 16)
        \o HexDigit((n \div 16) % 16) \o HexDigit(n % 16) \o s

\* packFlush(w): the flush marker
FlushPkt == "0000"

\* the i-th chunk the subprocess writes to its standard output
Chunk(i) ==
    "chunk" \o ToString(i)

\* the scan of listRepo: the namespace directories of Dir, each read by its
\* bare name (so relative to the working directory), and the namespace/leaf
\* pairs of their sub-directories named *.git
listScan(d, f, wd) ==
    LET top    == ReadDir(d, f, wd, Dir)
        nsDirs == {e \in top.entries : e.IsDir}
        sub(e) == ReadDir(d, f, wd, e.Name)
    IN  IF top.err \/ \E e \in nsDirs : sub(e).err
        THEN [err |-> TRUE, repos |-> {}]
        ELSE [err |-> FALSE,
              repos |-> UNION {{PathJoin(<<e.Name, x.Name>>) :
                                   x \in {y \in sub(e).entries :
                                             y.IsDir /\ HasSuffix(y.Name, ".git")}} :
                               e \in nsDirs}]

(***************************************************************************)
(* Initial states: a server built by New over some configuration.          *)
(***************************************************************************)
Init ==
    /\ cfg \in [Auth : BOOLEAN, AuthFunc : BOOLEAN, AutoCreate : BOOLEAN,
                FilterRepoFunc : BOOLEAN, AutoHooks : BOOLEAN]
    /\ cwd \in WorkDirs
    /\ \E disk \in Disks : dirs = disk.dirs /\ files = disk.files
    /\ req = [r \in Reqs |-> IdleReq]

(***************************************************************************)
(* Server.ServeHTTP, lines 78-142: routing, name check, authentication     *)
(* gate and the carve-out for create and list.  Nothing here reads the     *)
(* disk, so it is one step.                                                *)
(***************************************************************************)

\* lines 104-135 for a request that passed the name check
AuthGate(c, allow, err) ==
    IF ~cfg.Auth THEN [pass |-> TRUE, c |-> c]
    ELSE IF ~cfg.AuthFunc THEN [pass |-> FALSE, c |-> Respond(c, 401)]
    ELSE IF c.authHeader = ""
         THEN [pass |-> FALSE, c |-> Respond([c EXCEPT !.wwwAuth = TRUE], 401)]
    ELSE IF getCredential(c.authHeader).err THEN [pass |-> FALSE, c |-> Respond(c, 401)]
    ELSE LET called == [c EXCEPT !.authCalled = TRUE, !.authAllow = allow, !.authErr = err]
         IN  IF AuthRejected(allow, err)
             THEN [pass |-> FALSE, c |-> Respond(called, 401)]
             ELSE [pass |-> TRUE, c |-> called]

\* lines 137-143 and the hand-over to the existence check
AfterGate(c) ==
    IF BypassExistence(c.method, RequestURI(c.path, c.query))
    THEN InvokeHandler(c)
    ELSE [c EXCEPT !.pc = "exists1"]

Dispatch(c, allow, err) ==
    IF c.svc = 0 THEN Finish(Respond(c, 403))
    ELSE IF ~SkipNameCheck(c.method, RequestURI(c.path, c.query))
            /\ getNamespaceAndRepo(c.repoUrlPath).name = ""
         THEN Finish(Respond(c, 400))
    ELSE LET g == AuthGate(c, allow, err)
         IN  IF g.pass THEN AfterGate(g.c) ELSE Finish(g.c)

\* the request context built from an arriving request
NewRequest(method, path, query, header) ==
    LET found == findService(method, path)
        nn    == getNamespaceAndRepo(found.path)
    IN  [IdleReq EXCEPT
            !.method = method, !.path = path, !.query = query,
            !.authHeader = header,
            !.svc = found.svc,
            !.repoUrlPath = found.path,
            !.RepoName = PathJoin(<<nn.namespace, nn.name>>),
            !.RepoPath = PathJoin(<<Dir, nn.namespace, nn.name>>),
            !.disk0 = [dirs |-> dirs, files |-> files]]

ServeHTTP(r) ==
    /\ req[r].pc = "idle"
    /\ \E method \in Methods, path \in Paths, query \in Queries,
          header \in (IF cfg.Auth THEN AuthHeaders ELSE {""}),
          allow \in BOOLEAN, err \in BOOLEAN :
          req' = [req EXCEPT ![r] = Dispatch(NewRequest(method, path, query, header), allow, err)]
    /\ UNCHANGED <<cfg, cwd, dirs, files>>

(***************************************************************************)
(* Server.ServeHTTP, lines 144-157: existence check with auto-create.      *)
(***************************************************************************)

\* line 144: the first repoExists
CheckExists(r) ==
    /\ req[r].pc = "exists1"
    /\ req' = [req EXCEPT ![r].pc =
                  IF ~repoExists(dirs, files, req[r].RepoPath) /\ cfg.AutoCreate
                  THEN "autocreate" ELSE "exists2"]
    /\ UNCHANGED <<cfg, cwd, dirs, files>>

\* lines 145-148: initRepo, its error only logged
AutoCreate(r) ==
    /\ req[r].pc = "autocreate"
    /\ \E o \in initRepo(dirs, files, req[r].RepoName, cfg.AutoHooks) :
          /\ dirs' = o.dirs
          /\ files' = o.files
          /\ req' = [req EXCEPT ![r].pc = "exists2",
                                ![r].initRuns = @ + 1,
                                ![r].autoErr = o.err,
                                ![r].created = @ \/ o.dirs # dirs]
    /\ UNCHANGED <<cfg, cwd>>

\* lines 151-157: the second repoExists, 404 or the handler
FinalCheck(r) ==
    /\ req[r].pc = "exists2"
    /\ req' = [req EXCEPT ![r] =
                  IF ~repoExists(dirs, files, req[r].RepoPath)
                  THEN Finish(Respond(req[r], 404))
                  ELSE InvokeHandler([req[r] EXCEPT !.checked = TRUE])]
    /\ UNCHANGED <<cfg, cwd, dirs, files>>

(***************************************************************************)
(* Server.createRepo                                                       *)
(***************************************************************************)

\* createRepo going on to initRepo whatever repoExists returned
CreateRepoCheckIgnored(r) ==
    /\ req[r].pc = "createRepo"
    /\ req' = [req EXCEPT ![r].pc = "create_init",
                          ![r].sawMissing = ~repoExists(dirs, files, req[r].RepoPath)]
    /\ UNCHANGED <<cfg, cwd, dirs, files>>

\* line 250 and lines 266-272
CreateRepoCheck(r) ==
    /\ req[r].pc = "createRepo"
    /\ req' = [req EXCEPT ![r] =
                  IF ~repoExists(dirs, files, req[r].RepoPath)
                  THEN [req[r] EXCEPT !.pc = "create_init", !.sawMissing = TRUE]
                  ELSE Finish(Respond(req[r], 409))]
    /\ UNCHANGED <<cfg, cwd, dirs, files>>

\* lines 251-264
CreateRepoInit(r) ==
    /\ req[r].pc = "create_init"
    /\ \E o \in initRepo(dirs, files, req[r].RepoName, cfg.AutoHooks) :
          /\ dirs' = o.dirs
          /\ files' = o.files
          /\ req' = [req EXCEPT ![r] =
                        Finish(Respond([req[r] EXCEPT !.initRuns = @ + 1,
                                                      !.created = @ \/ o.dirs # dirs],
                                       IF o.err THEN 500 ELSE 201))]
    /\ UNCHANGED <<cfg, cwd>>

(***************************************************************************)
(* Server.listRepo                                                         *)
(***************************************************************************)

\* listRepo with a nil FilterRepoFunc treated as the identity filter
ListRepoNilIsIdentity(r) ==
    /\ req[r].pc = "listRepo"
    /\ LET scan == listScan(dirs, files, cwd)
       IN  IF scan.err
           THEN req' = [req EXCEPT ![r] = Finish(Respond(req[r], 500))]
           ELSE \E kept \in (IF cfg.FilterRepoFunc THEN SUBSET scan.repos ELSE {scan.repos}) :
                   req' = [req EXCEPT ![r] =
                              Finish(Respond([req[r] EXCEPT !.listed = scan.repos,
                                                            !.filterCalled = cfg.FilterRepoFunc,
                                                            !.body = <<kept>>],
                                             200))]
    /\ UNCHANGED <<cfg, cwd, dirs, files>>

\* lines 275-306: the scan, then s.FilterRepoFunc(repos, r) (a call of a nil
\* function value panics), then the 200 response with what the filter kept
ListRepo(r) ==
    /\ req[r].pc = "listRepo"
    /\ LET scan == listScan(dirs, files, cwd)
       IN  IF scan.err
           THEN req' = [req EXCEPT ![r] = Finish(Respond(req[r], 500))]
           ELSE IF ~cfg.FilterRepoFunc
           THEN req' = [req EXCEPT ![r] = Finish([req[r] EXCEPT !.panicked = TRUE])]
           ELSE \E kept \in SUBSET scan.repos :
                   req' = [req EXCEPT ![r] =
                              Finish(Respond([req[r] EXCEPT !.listed = scan.repos,
                                                            !.filterCalled = TRUE,
                                                            !.body = <<kept>>],
                                             200))]
    /\ UNCHANGED <<cfg, cwd, dirs, files>>

(***************************************************************************)
(* Server.deleteRepo                                                       *)
(***************************************************************************)

\* lines 309-324
DeleteRepoStat(r) ==
    /\ req[r].pc = "deleteRepo"
    /\ req' = [req EXCEPT ![r] =
                  IF req[r].RepoName = "" THEN Finish(Respond(req[r], 400))
                  ELSE IF ~Stat(dirs, files, PathJoin(<<Dir, req[r].RepoName>>))
                       THEN Finish(Respond(req[r], 500))
                  ELSE [req[r] EXCEPT !.pc = "delete_rm"]]
    /\ UNCHANGED <<cfg, cwd, dirs, files>>

\* lines 326-338: RemoveAll fails and leaves the tree, or removes it
DeleteRepoRemove(r) ==
    /\ req[r].pc = "delete_rm"
    /\ \/ /\ req' = [req EXCEPT ![r] = Finish(Respond(req[r], 500))]
          /\ UNCHANGED <<dirs, files>>
       \/ LET after == RemoveAll(dirs, files, PathJoin(<<Dir, req[r].RepoName>>))
          IN  /\ dirs' = after.dirs
              /\ files' = after.files
              /\ req' = [req EXCEPT ![r] =
                            Finish(Respond([req[r] EXCEPT !.removed = TRUE], 202))]
    /\ UNCHANGED <<cfg, cwd>>

(***************************************************************************)
(* Server.getInfoRefs                                                      *)
(***************************************************************************)

\* line 164: the service values that are advertised
ValidRpc(rpc) ==
    rpc = "git-upload-pack" \/ rpc = "git-receive-pack"

\* lines 161-174: the service parameter, then cmd.Start
GetInfoRefsStart(r) ==
    /\ req[r].pc = "getInfoRefs"
    /\ IF ~ValidRpc(QueryGet(req[r].query, "service"))
       THEN req' = [req EXCEPT ![r] = Finish(Respond(req[r], 404))]
       ELSE \E started \in BOOLEAN :
               req' = [req EXCEPT ![r] =
                          IF ~started THEN Finish(Respond(req[r], 500))
                          ELSE [req[r] EXCEPT !.pc = "ir_head",
                                              !.spawned = @ + 1,
                                              !.group = "live"]]
    /\ UNCHANGED <<cfg, cwd, dirs, files>>

\* lines 176-183: headers, status 200, the announcement pkt-line
GetInfoRefsHead(r) ==
    /\ req[r].pc = "ir_head"
    /\ \E werr \in BOOLEAN :
          req' = [req EXCEPT ![r] =
                     LET c == Respond(req[r], 200)
                     IN  IF werr THEN ReturnDeferred(c)
                         ELSE [c EXCEPT !.pc = "ir_flush",
                                        !.body = Append(@, PktLine("# service="
                                                     \o QueryGet(c.query, "service") \o "\n"))]]
    /\ UNCHANGED <<cfg, cwd, dirs, files>>

\* getInfoRefs going from the announcement to the copy with no flush marker
GetInfoRefsFlushOmitted(r) ==
    /\ req[r].pc = "ir_flush"
    /\ req' = [req EXCEPT ![r].pc = "ir_copy"]
    /\ UNCHANGED <<cfg, cwd, dirs, files>>

\* lines 185-188: the flush marker
GetInfoRefsFlush(r) ==
    /\ req[r].pc = "ir_flush"
    /\ \E werr \in BOOLEAN :
          req' = [req EXCEPT ![r] =
                     IF werr THEN ReturnDeferred(req[r])
                     ELSE [req[r] EXCEPT !.pc = "ir_copy", !.body = Append(@, FlushPkt)]]
    /\ UNCHANGED <<cfg, cwd, dirs, files>>

\* lines 190-193: io.Copy(w, pipe), one chunk per step; the copy ends at the
\* end of the subprocess's output or with an error
GetInfoRefsCopy(r) ==
    /\ req[r].pc = "ir_copy"
    /\ \/ /\ req[r].out < MaxChunks
          /\ req' = [req EXCEPT ![r].out = @ + 1,
                                ![r].body = Append(@, Chunk(req[r].out + 1))]
       \/ req' = [req EXCEPT ![r].pc = "ir_wait"]
       \/ req' = [req EXCEPT ![r] = ReturnDeferred(req[r])]
    /\ UNCHANGED <<cfg, cwd, dirs, files>>

\* lines 195-199: cmd.Wait, its error only logged, then the return
GetInfoRefsWait(r) ==
    /\ req[r].pc = "ir_wait"
    /\ req' = [req EXCEPT ![r] = ReturnDeferred([req[r] EXCEPT !.waited = TRUE])]
    /\ UNCHANGED <<cfg, cwd, dirs, files>>

(***************************************************************************)
(* Server.postRPC                                                          *)
(***************************************************************************)

\* lines 202-227: gzip reader, command, stdin pipe, cmd.Start
PostRPCStart(r) ==
    /\ req[r].pc = "postRPC"
    /\ \E encoding \in {"", "gzip"},
          failure \in {"none", "gzip", "stdin", "start"} :
          /\ failure = "gzip" => encoding = "gzip"
          /\ req' = [req EXCEPT ![r] =
                        IF failure # "none" THEN Finish(Respond(req[r], 500))
                        ELSE [req[r] EXCEPT !.pc = "rpc_in",
                                            !.spawned = @ + 1,
                                            !.group = "live"]]
    /\ UNCHANGED <<cfg, cwd, dirs, files>>

\* postRPC writing the 200 status before the request body is copied
PostRPCInputAfterStatus(r) ==
    /\ req[r].pc = "rpc_in"
    /\ \E cerr \in BOOLEAN :
          req' = [req EXCEPT ![r] =
                     LET c == Respond(req[r], 200)
                     IN  IF cerr THEN ReturnDeferred(Respond(c, 500))
                         ELSE [c EXCEPT !.pc = "rpc_head", !.stdinClosed = TRUE]]
    /\ UNCHANGED <<cfg, cwd, dirs, files>>

\* lines 229-233: the request body copied to standard input, which is closed
PostRPCInput(r) ==
    /\ req[r].pc = "rpc_in"
    /\ \E cerr \in BOOLEAN :
          req' = [req EXCEPT ![r] =
                     IF cerr THEN ReturnDeferred(Respond(req[r], 500))
                     ELSE [req[r] EXCEPT !.pc = "rpc_head", !.stdinClosed = TRUE]]
    /\ UNCHANGED <<cfg, cwd, dirs, files>>

\* lines 235-237: headers and status 200
PostRPCHead(r) ==
    /\ req[r].pc = "rpc_head"
    /\ req' = [req EXCEPT ![r] = [Respond(req[r], 200) EXCEPT !.pc = "rpc_out"]]
    /\ UNCHANGED <<cfg, cwd, dirs, files>>

\* lines 239-242: io.Copy(newWriteFlusher(w), pipe), one chunk per step
PostRPCOutput(r) ==
    /\ req[r].pc = "rpc_out"
    /\ \/ /\ req[r].out < MaxChunks
          /\ req' = [req EXCEPT ![r].out = @ + 1,
                                ![r].body = Append(@, Chunk(req[r].out + 1))]
       \/ req' = [req EXCEPT ![r].pc = "rpc_wait"]
       \/ req' = [req EXCEPT ![r] = ReturnDeferred(req[r])]
    /\ UNCHANGED <<cfg, cwd, dirs, files>>

\* lines 243-247: cmd.Wait, its error only logged, then the return
PostRPCWait(r) ==
    /\ req[r].pc = "rpc_wait"
    /\ req' = [req EXCEPT ![r] = ReturnDeferred([req[r] EXCEPT !.waited = TRUE])]
    /\ UNCHANGED <<cfg, cwd, dirs, files>>

(***************************************************************************)
(* Specifications.                                                         *)
(***************************************************************************)

\* the steps of a request after it was accepted
Step(r) ==
    \/ CheckExists(r)
    \/ AutoCreate(r)
    \/ FinalCheck(r)
    \/ CreateRepoCheck(r)
    \/ CreateRepoInit(r)
    \/ ListRepo(r)
    \/ DeleteRepoStat(r)
    \/ DeleteRepoRemove(r)
    \/ GetInfoRefsStart(r)
    \/ GetInfoRefsHead(r)
    \/ GetInfoRefsFlush(r)
    \/ GetInfoRefsCopy(r)
    \/ GetInfoRefsWait(r)
    \/ PostRPCStart(r)
    \/ PostRPCInput(r)
    \/ PostRPCHead(r)
    \/ PostRPCOutput(r)
    \/ PostRPCWait(r)

\* ServeHTTP has returned: the request context is dropped
Close(r) ==
    /\ req[r].pc = "done"
    /\ req' = [req EXCEPT ![r] = IdleReq]
    /\ UNCHANGED <<cfg, cwd, dirs, files>>

\* requests are served one at a time: a context accepts its next request
\* when the one before it ended
Next ==
    \E r \in Reqs : ServeHTTP(r) \/ Step(r) \/ Close(r)

Spec == Init /\ [][Next]_vars

(***************************************************************************)
(* Concurrent requests.  net/http serves every request in a goroutine of   *)
(* its own and the server takes no lock, so the steps of two requests      *)
(* interleave freely.  The requests are the create and the delete of the   *)
(* repository a/x.git, on a server without Auth.                           *)
(***************************************************************************)

\* the request contexts that run concurrently
ConcReqs == {1, 2}

LifecycleMethods == {"POST", "DELETE"}

LifecyclePath == "/a/x.git/repo"

InitConc ==
    /\ cfg \in [Auth : {FALSE}, AuthFunc : {TRUE}, AutoCreate : BOOLEAN,
                FilterRepoFunc : {TRUE}, AutoHooks : {FALSE}]
    /\ cwd = Dir
    /\ \E disk \in Disks : dirs = disk.dirs /\ files = disk.files
    /\ req = [r \in ConcReqs |-> IdleReq]

\* ServeHTTP lines 78-142 for a create or a delete of a/x.git
ServeLifecycle(r) ==
    /\ req[r].pc = "idle"
    /\ \E method \in LifecycleMethods :
          req' = [req EXCEPT ![r] =
                     Dispatch(NewRequest(method, LifecyclePath, "", ""), FALSE, FALSE)]
    /\ UNCHANGED <<cfg, cwd, dirs, files>>

NextConc ==
    \E r \in ConcReqs :
        \/ ServeLifecycle(r)
        \/ CheckExists(r)
        \/ AutoCreate(r)
        \/ FinalCheck(r)
        \/ CreateRepoCheck(r)
        \/ CreateRepoInit(r)
        \/ DeleteRepoStat(r)
        \/ DeleteRepoRemove(r)
        \/ Close(r)

SpecConc == InitConc /\ [][NextConc]_vars

(***************************************************************************)
(* postRPC over bounded pipes.  The request body reaches the subprocess    *)
(* through the standard input pipe and its output comes back through the   *)
(* standard output pipe (gitCommand, cmd.StdinPipe); a write to a full     *)
(* pipe and a read of an empty one block.  The subprocess is a sequential  *)
(* program: it picks its next operation, a read of its input or a write of *)
(* output, and stays in it until it completes; it reads to the end of its  *)
(* input, writes at most MaxPiped chunks and exits.  The client reads all  *)
(* the server writes, so no copy fails.                                    *)
(***************************************************************************)

\* the longest request body and subprocess output: one chunk more than a
\* pipe holds
MaxPiped == PipeCap + 1

RpcPaths == {"/a/x.git/git-upload-pack", "/a/x.git/git-receive-pack"}

InitPipe ==
    /\ cfg \in [Auth : {FALSE}, AuthFunc : {TRUE}, AutoCreate : {FALSE},
                FilterRepoFunc : {TRUE}, AutoHooks : {FALSE}]
    /\ cwd = Dir
    /\ dirs = PopulatedDisk.dirs /\ files = PopulatedDisk.files
    /\ req = [r \in Reqs |-> IdleReq]

\* ServeHTTP lines 78-142 for an upload-pack or receive-pack request with a
\* body of n chunks
ServeRPC(r) ==
    /\ req[r].pc = "idle"
    /\ \E path \in RpcPaths, n \in 0..MaxPiped :
          req' = [req EXCEPT ![r] =
                     Dispatch([NewRequest("POST", path, "", "") EXCEPT !.bodyLeft = n],
                              FALSE, FALSE)]
    /\ UNCHANGED <<cfg, cwd, dirs, files>>

\* line 229, io.Copy(stdin, body): one chunk is written to the standard
\* input pipe; the write blocks while the pipe is full
PipeWriteInput(r) ==
    /\ req[r].pc = "rpc_in"
    /\ req[r].bodyLeft > 0
    /\ req[r].inPipe < PipeCap
    /\ req' = [req EXCEPT ![r].bodyLeft = @ - 1, ![r].inPipe = @ + 1]
    /\ UNCHANGED <<cfg, cwd, dirs, files>>

\* lines 229-233: the body is at its end, io.Copy returns, stdin.Close()
PipeCloseInput(r) ==
    /\ req[r].pc = "rpc_in"
    /\ req[r].bodyLeft = 0
    /\ req' = [req EXCEPT ![r].pc = "rpc_head", ![r].stdinClosed = TRUE]
    /\ UNCHANGED <<cfg, cwd, dirs, files>>

\* line 239, io.Copy(newWriteFlusher(w), pipe): one chunk is read from the
\* standard output pipe and written to the response; the read blocks while
\* the pipe is empty and the subprocess has not exited; at the end of the
\* output the copy returns
PipeCopyOutput(r) ==
    /\ req[r].pc = "rpc_out"
    /\ \/ /\ req[r].outPipe > 0
          /\ req' = [req EXCEPT ![r].outPipe = @ - 1,
                                ![r].out = @ + 1,
                                ![r].body = Append(@, Chunk(req[r].out + 1))]
       \/ /\ req[r].outPipe = 0
          /\ req[r].sub = "exited"
          /\ req' = [req EXCEPT ![r].pc = "rpc_wait"]
    /\ UNCHANGED <<cfg, cwd, dirs, files>>

\* the subprocess runs while its handler is between cmd.Start and the return
SubRunning(c) ==
    c.group = "live" /\ c.pc \in {"rpc_in", "rpc_head", "rpc_out"}

\* the subprocess picks its next operation: a read until it saw the end of
\* the input, a write while it has output left, the exit after the end of
\* the input
SubChoose(r) ==
    /\ SubRunning(req[r])
    /\ req[r].sub = "choose"
    /\ \E op \in {"read", "write", "exited"} :
          /\ op = "read" => ~req[r].subEof
          /\ op = "write" => req[r].subOut < MaxPiped
          /\ op = "exited" => req[r].subEof
          /\ req' = [req EXCEPT ![r].sub = op]
    /\ UNCHANGED <<cfg, cwd, dirs, files>>

\* read(0): a chunk of the standard input pipe, or the end of the input
\* once the handler closed it; blocks while the pipe is empty and open
SubRead(r) ==
    /\ SubRunning(req[r])
    /\ req[r].sub = "read"
    /\ \/ /\ req[r].inPipe > 0
          /\ req' = [req EXCEPT ![r].inPipe = @ - 1, ![r].sub = "choose"]
       \/ /\ req[r].inPipe = 0
          /\ req[r].stdinClosed
          /\ req' = [req EXCEPT ![r].subEof = TRUE, ![r].sub = "choose"]
    /\ UNCHANGED <<cfg, cwd, dirs, files>>

\* write(1): a chunk into the standard output pipe; blocks while it is full
SubWrite(r) ==
    /\ SubRunning(req[r])
    /\ req[r].sub = "write"
    /\ req[r].outPipe < PipeCap
    /\ req' = [req EXCEPT ![r].outPipe = @ + 1, ![r].subOut = @ + 1, ![r].sub = "choose"]
    /\ UNCHANGED <<cfg, cwd, dirs, files>>

\* the steps of postRPC
HandlerStep(r) ==
    \/ PostRPCStart(r)
    \/ PipeWriteInput(r)
    \/ PipeCloseInput(r)
    \/ PostRPCHead(r)
    \/ PipeCopyOutput(r)
    \/ PostRPCWait(r)

\* the steps of its subprocess
SubStep(r) ==
    \/ SubChoose(r)
    \/ SubRead(r)
    \/ SubWrite(r)

NextPipe ==
    \E r \in Reqs :
        \/ ServeRPC(r)
        \/ CheckExists(r)
        \/ FinalCheck(r)
        \/ HandlerStep(r)
        \/ SubStep(r)
        \/ Close(r)

\* the goroutine of the handler and the subprocess are both scheduled: a
\* step of either that stays possible is taken in the end
SpecPipe ==
    /\ InitPipe
    /\ [][NextPipe]_vars
    /\ \A r \in Reqs : WF_vars(HandlerStep(r)) /\ WF_vars(SubStep(r))

(***************************************************************************)
(* Properties.                                                             *)
(***************************************************************************)

\* the request's derived repository name is empty
EmptyName(c) ==
    getNamespaceAndRepo(c.repoUrlPath).name = ""

\* the request matched a route and passed the name check, so it reached the
\* authentication gate
ReachedGate(c) ==
    /\ c.pc # "idle"
    /\ c.svc # 0
    /\ ~(~SkipNameCheck(c.method, RequestURI(c.path, c.query)) /\ EmptyName(c))

\* AuthFunc was called for the request and returned (true, nil)
AuthPassed(c) ==
    c.authCalled /\ c.authAllow /\ ~c.authErr

\* the request has done nothing beyond answering: no handler, no initRepo, no
\* RemoveAll, no subprocess, and the disk is as it was when the request arrived
NoWork(c) ==
    /\ c.handler = "none" /\ c.handlerCalls = 0
    /\ c.initRuns = 0 /\ ~c.created /\ ~c.removed
    /\ c.spawned = 0 /\ c.group = "none"
    /\ dirs = c.disk0.dirs /\ files = c.disk0.files

\* C1: with Auth required, a request invokes no handler, creates or deletes
\* no repository and starts no subprocess unless AuthFunc was called for it
\* and returned (true, nil); every other request that reaches the gate (no
\* AuthFunc, no header, AuthFunc false, AuthFunc error even with true) has
\* ended with 401.
C1_AuthGate ==
    \A r \in Reqs :
        LET c == req[r]
        IN  (cfg.Auth /\ c.pc # "idle" /\ ~AuthPassed(c)) =>
               /\ NoWork(c)
               /\ ReachedGate(c) => (c.pc = "done" /\ c.status = 401)

\* C1 witness: AuthFunc returned (true, error) and the request ended 401
C1_Witness ==
    \E r \in Reqs :
        /\ cfg.Auth /\ req[r].authCalled /\ req[r].authAllow /\ req[r].authErr
        /\ req[r].pc = "done" /\ req[r].status = 401

\* the positions inside getInfoRefs and postRPC after cmd.Start succeeded
Streaming ==
    {"ir_head", "ir_flush", "ir_copy", "ir_wait", "rpc_in", "rpc_head", "rpc_out", "rpc_wait"}

\* C2: a handler that has returned has no live process group, every process
\* it started had the process-group cleanup run, and a process group is live
\* only while its handler is between cmd.Start and its return.
C2_GroupCleanedUp ==
    \A r \in Reqs :
        LET c == req[r]
        IN  /\ c.pc = "done" => (c.group # "live" /\ (c.spawned > 0 => c.group = "gone"))
            /\ c.group = "live" => c.pc \in Streaming
            /\ c.pc \in Streaming => (c.group = "live" /\ c.spawned = 1)

\* C2 witness: a copy to the client failed mid-stream (200 sent, the process
\* not waited for) and the handler returned with the group cleaned up
C2_Witness ==
    \E r \in Reqs :
        /\ req[r].pc = "done" /\ req[r].spawned = 1 /\ req[r].status = 200
        /\ ~req[r].waited /\ req[r].out = 1 /\ req[r].group = "gone"

\* C3: the info-refs, upload-pack, receive-pack and delete handlers are
\* invoked only after the dispatcher's existence check found an objects
\* entry under the request's repository path; only the create and list
\* handlers are reached without it.
C3_ExistenceChecked ==
    \A r \in Reqs :
        LET c == req[r]
        IN  (c.handler \in {"getInfoRefs", "postRPC", "deleteRepo"}) => c.checked

\* C4: with Auth required, a request without an Authorization header that
\* reaches the gate is answered 401 with a WWW-Authenticate header, also
\* when no AuthFunc was supplied.
C4_ChallengeAlways ==
    \A r \in Reqs :
        LET c == req[r]
        IN  (cfg.Auth /\ ReachedGate(c) /\ c.authHeader = "") =>
               (c.pc = "done" /\ c.status = 401 /\ c.wwwAuth)

\* C5: a request that matches a route other than the listing one and whose
\* derived repository name is empty is answered 400 at once: AuthFunc is not
\* called, nothing is checked or created, no handler runs, no subprocess
\* starts.
C5_EmptyNameRejected ==
    \A r \in Reqs :
        LET c == req[r]
        IN  (c.pc # "idle" /\ c.svc # 0 /\ services[c.svc].handler # "listRepo"
             /\ EmptyName(c)) =>
               (c.pc = "done" /\ c.status = 400 /\ ~c.authCalled /\ NoWork(c))

\* the request passed routing, the name check and the authentication gate
PassedGate(c) ==
    ReachedGate(c) /\ (cfg.Auth => AuthPassed(c))

\* the request was routed to the service whose handler is h
RoutedTo(c, h) ==
    c.svc # 0 /\ services[c.svc].handler = h

\* C6: a create request on a path without an objects entry is answered 201
\* and repoExists is true afterwards (a failure of initRepo itself, answered
\* 500, is left aside); a create request on an existing repository is
\* answered 409, invokes no initRepo and leaves the disk unchanged.
C6_CreateContract ==
    \A r \in Reqs :
        LET c == req[r]
        IN  (c.pc = "done" /\ RoutedTo(c, "createRepo") /\ PassedGate(c)) =>
               IF ~repoExists(c.disk0.dirs, c.disk0.files, c.RepoPath)
               THEN \/ c.status = 201 /\ repoExists(dirs, files, c.RepoPath)
                    \/ c.status = 500 /\ c.handler = "createRepo" /\ c.initRuns = 1
               ELSE /\ c.status = 409 /\ c.initRuns = 0
                    /\ dirs = c.disk0.dirs /\ files = c.disk0.files

\* C7: delete is not idempotent for every configuration: a delete request
\* whose target is absent ends in a failure response, never 202; one whose
\* target is present is answered 202 and repoExists is false afterwards (a
\* failure of RemoveAll itself, answered 500, is left aside).
C7_DeleteNotIdempotent ==
    \A r \in Reqs :
        LET c == req[r]
        IN  (c.pc = "done" /\ RoutedTo(c, "deleteRepo") /\ PassedGate(c)) =>
               IF ~repoExists(c.disk0.dirs, c.disk0.files, c.RepoPath)
               THEN c.status >= 400
               ELSE \/ c.status = 202 /\ ~repoExists(dirs, files, c.RepoPath)
                    \/ c.status = 500 /\ ~c.removed

\* C8: for every matched request the string handed to getNamespaceAndRepo is
\* the request path with the matched suffix removed from its end: the path
\* is that string followed by the suffix.
C8_SuffixStrippedFromEnd ==
    \A r \in Reqs :
        LET c == req[r]
        IN  (c.pc # "idle" /\ c.svc # 0) =>
               c.repoUrlPath \o services[c.svc].suffix = c.path

\* the services whose method and suffix match the request
Matching(c) ==
    {i \in 1..Len(services) : Matches(i, c.method, c.path)}

\* C9: at most one registered service matches a request; a request that
\* matches none is answered 403 and invokes no handler; a request that
\* matches one invokes at most once the handler of that service and no other.
C9_UniqueService ==
    \A r \in Reqs :
        LET c == req[r]
        IN  c.pc # "idle" =>
               /\ Cardinality(Matching(c)) <= 1
               /\ Matching(c) = {} =>
                     (c.pc = "done" /\ c.status = 403 /\ c.handlerCalls = 0 /\ c.handler = "none")
               /\ \A i \in Matching(c) :
                     /\ c.svc = i
                     /\ c.handlerCalls <= 1
                     /\ c.handler \in {"none", services[i].handler}
                     /\ c.handlerCalls = 1 <=> c.handler = services[i].handler

\* C9 witness: a delete request ended after its handler ran once, while the
\* same path does not match under another method
C9_Witness ==
    \E r \in Reqs :
        /\ req[r].pc = "done" /\ req[r].method = "DELETE"
        /\ req[r].handler = "deleteRepo" /\ req[r].handlerCalls = 1
        /\ Matching([req[r] EXCEPT !.method = "GET"]) = {}

\* the namespace/leaf pairs of the repositories under Dir: leaf is a
\* directory named *.git inside a directory that is directly under Dir
ExpectedListing(d) ==
    {PathJoin(<<BaseName(ParentDir(q)), BaseName(q)>>) :
        q \in {e \in d : /\ ParentDir(e) \in d
                          /\ ParentDir(e) # "/"
                          /\ ParentDir(ParentDir(e)) = Dir
                          /\ HasSuffix(BaseName(e), ".git")}}

\* C10: for every disk and working directory the list handed to
\* FilterRepoFunc is exactly the namespace/leaf pairs of the *.git
\* directories two levels under Dir, and the listing does not fail.
C10_ListExact ==
    \A r \in Reqs :
        LET c == req[r]
        IN  (c.pc = "done" /\ c.handler = "listRepo" /\ cfg.FilterRepoFunc) =>
               (c.status = 200 /\ c.filterCalled /\ c.listed = ExpectedListing(dirs))

\* the leaf name of a namespace/leaf pair
Leaf(e) ==
    BaseName("/" \o e)

\* C11: every entry the list operation hands to FilterRepoFunc has a leaf
\* name ending in ".git" and names a directory under Dir; a directory whose
\* leaf name does not end in ".git" is never handed over, with or without an
\* objects entry, and neither is a regular file.
C11_ListOnlyRepoDirs ==
    \A r \in Reqs :
        LET c == req[r]
        IN  c.filterCalled =>
               \A e \in c.listed :
                  /\ HasSuffix(Leaf(e), ".git")
                  /\ PathJoin(<<Dir, e>>) \in dirs

\* C12: without a FilterRepoFunc a list request ends in an error outcome (a
\* 4xx or 500 status, or the panic of the nil call with no response written)
\* and never in a 200 response; no list is written to the body.
C12_NoFilterFailsFast ==
    \A r \in Reqs :
        LET c == req[r]
        IN  (~cfg.FilterRepoFunc /\ c.pc = "done" /\ RoutedTo(c, "listRepo")) =>
               /\ c.status # 200
               /\ c.body = <<>>
               /\ ~c.filterCalled
               /\ \/ c.panicked /\ c.status = 0 /\ c.statusWrites = 0
                  \/ ~c.panicked /\ c.status \in {400, 401, 500}

\* C12 witness: the scan found repositories, no FilterRepoFunc was supplied
\* and the handler ended in the panic of the nil call
C12_Witness ==
    \E r \in Reqs :
        /\ ~cfg.FilterRepoFunc /\ req[r].pc = "done" /\ req[r].handler = "listRepo"
        /\ req[r].panicked /\ req[r].status = 0
        /\ ~listScan(dirs, files, cwd).err
        /\ listScan(dirs, files, cwd).repos # {}

\* the bytes of the announcement pkt-line for the two advertised services
Announcement(rpc) ==
    IF rpc = "git-upload-pack" THEN "001e# service=git-upload-pack\n"
    ELSE "001f# service=git-receive-pack\n"

\* the response body of an advertisement after n chunks of subprocess output
Advertised(rpc, n) ==
    <<Announcement(rpc), "0000">> \o [i \in 1..n |-> Chunk(i)]

\* C13: in getInfoRefs with service git-upload-pack or git-receive-pack the
\* body is, at every moment, a prefix of: the announcement pkt-line, the
\* flush marker "0000", the subprocess's output chunks in order; an output
\* chunk is in the body only after the flush marker, and the process is
\* waited for only after the copy, right before the return.  With any other
\* service value the handler answers 404, starts no subprocess and writes
\* no body.
C13_AdvertiseOrder ==
    \A r \in Reqs :
        LET c   == req[r]
            rpc == QueryGet(c.query, "service")
        IN  c.handler = "getInfoRefs" =>
               IF rpc \in {"git-upload-pack", "git-receive-pack"}
               THEN /\ Len(c.body) <= c.out + 2
                    /\ c.body = SubSeq(Advertised(rpc, c.out), 1, Len(c.body))
                    /\ c.out > 0 => Len(c.body) = c.out + 2
                    /\ c.pc \in {"ir_copy", "ir_wait"} => Len(c.body) = c.out + 2
                    /\ c.waited => (c.pc = "done" /\ Len(c.body) = c.out + 2)
                    /\ Len(c.body) > 0 => (c.status = 200 /\ c.spawned = 1)
               ELSE /\ c.pc \in {"getInfoRefs", "done"}
                    /\ c.pc = "done" => c.status = 404
                    /\ c.spawned = 0 /\ c.body = <<>> /\ c.out = 0

\* C13 witness: an upload-pack advertisement ran to the end, the body is the
\* announcement "001e# service=git-upload-pack\n", "0000" and two chunks
C13_Witness ==
    \E r \in Reqs :
        /\ req[r].pc = "done" /\ req[r].handler = "getInfoRefs" /\ req[r].waited
        /\ req[r].body = <<"001e# service=git-upload-pack\n", "0000", Chunk(1), Chunk(2)>>

\* C14: when the initRepo called by the dispatcher's auto-create returned an
\* error (the init step failed, or it succeeded and the hook installation
\* failed), the request goes on to the second existence check and that
\* check fails closed: the request ends with 404 and no handler is invoked.
C14_AutoCreateFailClosed ==
    \A r \in Reqs :
        LET c == req[r]
        IN  c.autoErr =>
               /\ c.handlerCalls = 0 /\ c.handler = "none"
               /\ c.pc \in {"exists2", "done"}
               /\ c.pc = "done" => c.status = 404

\* C15: in postRPC the request body is copied to standard input and
\* standard input is closed before the 200 status is written and before any
\* output chunk is copied; a failure before the 200 status (gzip header,
\* stdin pipe, start, input copy) ends the request with 500 and no output;
\* after the 200 status no other status is written: a request whose handler
\* returned wrote its status exactly once.
C15_RpcPhases ==
    \A r \in Reqs :
        LET c == req[r]
        IN  c.handler = "postRPC" =>
               /\ c.statusWrites <= 1
               /\ c.status \in {0, 200, 500}
               /\ c.status = 200 => (c.stdinClosed /\ c.spawned = 1)
               /\ c.out > 0 => (c.stdinClosed /\ c.status = 200)
               /\ Len(c.body) = c.out
               /\ c.stdinClosed => c.pc \in {"rpc_head", "rpc_out", "rpc_wait", "done"}
               /\ c.status = 500 => (c.pc = "done" /\ ~c.stdinClosed /\ c.out = 0)
               /\ c.pc = "done" =>
                     /\ c.statusWrites = 1
                     /\ c.status = IF c.stdinClosed THEN 200 ELSE 500

\* C15 witness: the copy of the output failed after one chunk, when the 200
\* status had been written; the handler returned with that one status
C15_Witness ==
    \E r \in Reqs :
        /\ req[r].pc = "done" /\ req[r].handler = "postRPC"
        /\ req[r].stdinClosed /\ req[r].status = 200 /\ req[r].statusWrites = 1
        /\ req[r].out = 1 /\ ~req[r].waited

\* C16: with concurrent requests every create answers by what its own
\* repoExists returned, whatever the other request is doing: 201 (or the 500
\* of a failed initRepo) after it saw the repository missing and ran
\* initRepo once, 409 with no initRepo after it saw the repository present;
\* a delete runs RemoveAll only after its own checks passed.  Nothing makes
\* a request wait for the other, so both can have seen the same disk.
C16_CheckThenAct ==
    \A r \in ConcReqs :
        LET c == req[r]
        IN  /\ (c.pc = "done" /\ c.handler = "createRepo") =>
                  IF c.sawMissing
                  THEN c.initRuns = 1 /\ c.status \in {201, 500}
                  ELSE c.initRuns = 0 /\ c.status = 409
            /\ c.status = 201 => (c.sawMissing /\ c.initRuns = 1)
            /\ c.pc = "delete_rm" => c.checked
            /\ c.removed => c.checked

\* C16 witness: two create requests for a/x.git, absent when each arrived,
\* both saw it missing, both ran initRepo and both were answered 201
C16_Witness ==
    /\ \A r \in ConcReqs :
          /\ req[r].pc = "done" /\ req[r].method = "POST"
          /\ req[r].RepoName = "a/x.git"
          /\ ~repoExists(req[r].disk0.dirs, req[r].disk0.files, req[r].RepoPath)
          /\ req[r].sawMissing /\ req[r].initRuns = 1 /\ req[r].status = 201
    /\ repoExists(dirs, files, PathJoin(<<Dir, "a/x.git">>))

\* the delete race of C16: two delete requests for a/x.git, present when
\* each arrived, both passed the existence check and the Lstat and are
\* about to remove the repository
C16_DeleteRace ==
    \A r \in ConcReqs :
        /\ req[r].pc = "delete_rm" /\ req[r].method = "DELETE"
        /\ req[r].RepoName = "a/x.git" /\ req[r].checked
        /\ repoExists(req[r].disk0.dirs, req[r].disk0.files, req[r].RepoPath)

\* the handler is blocked in io.Copy(stdin, body): body left, the pipe full
BlockedOnStdin(c) ==
    c.pc = "rpc_in" /\ c.bodyLeft > 0 /\ c.inPipe = PipeCap

\* the subprocess is blocked in a write to its full standard output pipe
BlockedOnStdout(c) ==
    c.group = "live" /\ c.sub = "write" /\ c.outPipe = PipeCap

\* C17: postRPC never reaches a state where the handler is blocked writing
\* the subprocess's standard input while the subprocess is blocked writing
\* its standard output (from which no step leads on, so that the handler
\* would never return).
C17_NoPipeDeadlock ==
    \A r \in Reqs :
        ~(BlockedOnStdin(req[r]) /\ BlockedOnStdout(req[r]))

\* C17 as a liveness property: a request handed to postRPC returns
C17_HandlerReturns ==
    \A r \in Reqs :
        (req[r].handler = "postRPC") ~> (req[r].pc = "done")

\* the repositories on a disk: the directories that hold an objects entry
Repositories(d, f) ==
    {p \in d : repoExists(d, f, p)}

\* the statuses of the client-error class the server answers with
ClientErrors == {400, 401, 403, 404, 409}

\* C18: a request answered with a 4xx status has left the repositories on
\* disk as they were when it arrived, has run no initRepo that created
\* anything and has started no protocol subprocess, with auto-create on or
\* off.
C18_ClientErrorNoEffect ==
    \A r \in Reqs :
        LET c == req[r]
        IN  (c.pc = "done" /\ c.status \in ClientErrors) =>
               /\ Repositories(dirs, files) = Repositories(c.disk0.dirs, c.disk0.files)
               /\ ~c.created
               /\ c.spawned = 0
====
